---------------------------- MODULE Spec2Model ----------------------------
(***************************************************************************)
(* The typing state machine of src/main.rs: struct Game with new, reset,   *)
(* expected_char, process_char, line_state and is_composing_char, driven   *)
(* one character at a time.                                                *)
(*                                                                         *)
(* Characters are Unicode code points (naturals).  Indices are 0-based as  *)
(* in the source; TLA+ sequences are 1-based, so text_chars.get(i) is      *)
(* text_chars[i + 1].                                                      *)
(*                                                                         *)
(* f32 values are modelled exactly.  Every f32 the game computes for a     *)
(* script of at most 200 characters is a multiple of 2^-24, so a value v   *)
(* is the integer v * 2^24 ("ticks"); division and subtraction round the   *)
(* exact result to 24 significant bits, ties to even, as IEEE-754 binary32 *)
(* does.                                                                   *)
(***************************************************************************)
EXTENDS Integers, Sequences, FiniteSets, TLC

(* ------------------------------ bounds -------------------------------- *)

\* longest synthetic script, in characters
MaxChars == 3

\* most lines a synthetic script is cut into
MaxLines == 2

\* longest script of the typed-through sessions, in characters (the f32
\* model is exact up to 200)
MaxDrain == 100

(* ---------------------------- characters ------------------------------ *)

TAB == 9
LF == 10
CR == 13
SPACE == 32
\* two syllables of LYRICS[0]
SylDong == 46041
SylHae == 54644

\* Option<char>::None
NoChar == 0 - 1

\* one code point of each composition range: the first of U+1100..U+11FF,
\* the last of U+D7B0..U+D7FF, and one inside each of the other two
JamoA == 4352
JamoB == 12593
JamoC == 43360
JamoD == 55295
IdeographicSpace == 12288

\* the characters synthetic scripts are made of
ScriptChars == {SylDong, SPACE, TAB, LF, JamoB}

\* the characters a caller submits, besides the expected one
InputChars ==
    {SylDong, SylHae, SPACE, TAB, LF, CR, JamoA, JamoB, JamoC, JamoD,
     IdeographicSpace}

LYRICS ==
    << <<46041, 54644, 32, 47932, 44284, 32, 48177, 46160, 49328, 51060, 32,
         47560, 47476, 44256, 32, 45811, 46020, 47197>>,
       <<54616, 45712, 45784, 51060, 32, 48372, 50864, 54616, 49324, 32,
         50864, 47532, 45208, 46972, 32, 47564, 49464>>,
       <<47924, 44417, 54868, 32, 49340, 52380, 47532, 32, 54868, 47140, 32,
         44053, 49328>>,
       <<45824, 54620, 32, 49324, 46988, 32, 45824, 54620, 51004, 47196, 32,
         44600, 51060, 32, 48372, 51204, 54616, 49464>> >>

(* ------------------------------- f32 ---------------------------------- *)

\* 1.0 in ticks of 2^-24
F32One == 16777216

\* 100.0
F32Hundred == 100 * F32One

\* +infinity (100.0 / 0.0): above every finite value the game holds
F32Inf == 2147483647

RECURSIVE Ulp(_)
\* the spacing of binary32 values around x ticks: the least power of two u
\* with x < 2^24 * u
Ulp(x) == IF x < F32One THEN 1 ELSE 2 * Ulp(x \div 2)

\* num/den ticks (num >= 0, den > 0) rounded to the nearest multiple of u,
\* ties to the even multiple
RoundRatio(num, den, u) ==
    LET d == den * u
        q == num \div d
        r == num % d
    IN  IF 2 * r > d \/ (2 * r = d /\ q % 2 = 1) THEN (q + 1) * u ELSE q * u

\* x ticks rounded to binary32
F32Round(x) == RoundRatio(x, 1, Ulp(x))

\* the division done on integers before the conversion: (100 / n) as f32
F32Div100_integer(n) == (100 \div n) * F32One

\* 100.0 / n as f32
F32Div100(n) ==
    IF n = 0 THEN F32Inf
    ELSE RoundRatio(F32Hundred, n, Ulp(F32Hundred \div n))

\* a - b as f32; a negative result keeps its sign
F32Sub(a, b) ==
    IF b = F32Inf THEN 0 - F32Inf
    ELSE IF a >= b THEN F32Round(a - b) ELSE 0 - F32Round(b - a)

\* x.max(0.0)
F32Max0(x) == IF x < 0 THEN 0 ELSE x

(* ---------------------------- the script ------------------------------ *)

RECURSIVE Flatten(_)
\* LYRICS.iter().flat_map(|line| line.chars()).collect()
Flatten(ls) == IF ls = <<>> THEN <<>> ELSE Head(ls) \o Flatten(Tail(ls))

RECURSIVE MetaFrom_onebased(_, _)
\* the positions counted from 1 (enumerate() taken for 1-based)
MetaFrom_onebased(ls, line_idx) ==
    IF ls = <<>> THEN <<>>
    ELSE [pos1 \in 1..Len(Head(ls)) |-> <<line_idx, pos1>>]
         \o MetaFrom_onebased(Tail(ls), line_idx + 1)

RECURSIVE MetaFrom(_, _)
\* the (line_idx, pos) pairs pushed for the lines ls, the first of which has
\* index line_idx
MetaFrom(ls, line_idx) ==
    IF ls = <<>> THEN <<>>
    ELSE [pos1 \in 1..Len(Head(ls)) |-> <<line_idx, pos1 - 1>>]
         \o MetaFrom(Tail(ls), line_idx + 1)

\* strings of at most n script characters
Strs(n) == UNION {[1..k -> ScriptChars] : k \in 0..n}

\* non-decreasing cut positions in 0..n, at most k of them
Cuts(n, k) ==
    {c \in UNION {[1..j -> 0..n] : j \in 0..k} :
        \A i \in 1..(Len(c) - 1) : c[i] <= c[i + 1]}

\* s cut into Len(c) + 1 lines at the positions c
Split(s, c) ==
    [i \in 1..(Len(c) + 1) |->
        SubSeq(s, (IF i = 1 THEN 0 ELSE c[i - 1]) + 1,
                  IF i = Len(c) + 1 THEN Len(s) ELSE c[i])]

\* the texts a session is built from: the program's own, and every text of
\* at most MaxChars characters in at most MaxLines lines
Scripts ==
    {LYRICS} \cup
    UNION {{Split(s, c) : c \in Cuts(Len(s), MaxLines - 1)} : s \in Strs(MaxChars)}

(* ----------------------------- the state ------------------------------ *)

VARIABLES
    lines,              \* the text the session was built from (LYRICS)
    text_chars,         \* Game.text_chars
    char_meta,          \* Game.char_meta
    total_chars,        \* Game.total_chars
    boss_hp,            \* Game.boss_hp, in ticks
    boss_damage,        \* Game.boss_damage, in ticks
    current_index,      \* Game.current_index
    awaiting_restart,   \* Game.awaiting_restart
    message,            \* Game.message
    input,              \* the argument of the last process_char
    result,             \* the StepResult of the last process_char
    branch,             \* the return statement of the last process_char
    typed,              \* how many submits were made, when they were exactly
                        \* the script's first characters in order; else -1
    last_outcome,       \* the kind of the last StepResult other than Ignored
    hits,               \* the Correct and Victory results since construction
                        \* or the last reset
    wrong_char,         \* run_app's wrong_char
    running             \* run_app's loop has not been left

game == <<boss_hp, current_index, awaiting_restart, message>>
script == <<lines, text_chars, char_meta, total_chars, boss_damage>>
vars == <<lines, text_chars, char_meta, total_chars, boss_hp, boss_damage,
          current_index, awaiting_restart, message, input, result, branch,
          typed, last_outcome, hits, wrong_char, running>>

\* StepResult
Correct == [kind |-> "Correct", ch |-> NoChar]
Wrong(c) == [kind |-> "Wrong", ch |-> c]
Ignored == [kind |-> "Ignored", ch |-> NoChar]
Victory == [kind |-> "Victory", ch |-> NoChar]
Restarted == [kind |-> "Restarted", ch |-> NoChar]
NoResult == [kind |-> "None", ch |-> NoChar]

\* Game::new() on the text ls
New(ls) ==
    /\ lines = ls
    /\ text_chars = Flatten(ls)
    /\ char_meta = MetaFrom(ls, 0)
    /\ total_chars = Len(Flatten(ls))
    /\ boss_hp = F32Hundred
    /\ boss_damage = F32Div100(Len(Flatten(ls)))
    /\ current_index = 0
    /\ awaiting_restart = FALSE
    /\ message = "intro"
    /\ input = NoChar
    /\ result = NoResult
    /\ branch = "new"
    /\ typed = 0
    /\ last_outcome = "None"
    /\ hits = 0
    /\ wrong_char = NoChar
    /\ running = TRUE

\* a session on a non-empty text
Init == \E ls \in Scripts : Len(Flatten(ls)) > 0 /\ New(ls)

(* --------------------------- the operations --------------------------- *)

\* reset that leaves current_index as it was
reset_keeps_cursor ==
    /\ boss_hp' = F32Hundred
    /\ awaiting_restart' = FALSE
    /\ message' = "restarted"
    /\ UNCHANGED current_index

\* reset that leaves boss_hp as it was
reset_keeps_hp ==
    /\ current_index' = 0
    /\ awaiting_restart' = FALSE
    /\ message' = "restarted"
    /\ UNCHANGED boss_hp

\* reset that leaves awaiting_restart as it was
reset_keeps_flag ==
    /\ boss_hp' = F32Hundred
    /\ current_index' = 0
    /\ message' = "restarted"
    /\ UNCHANGED awaiting_restart

\* Game::reset: the fields it assigns
reset ==
    /\ boss_hp' = F32Hundred
    /\ current_index' = 0
    /\ awaiting_restart' = FALSE
    /\ message' = "restarted"

\* Game::expected_char
expected_char ==
    IF current_index < Len(text_chars) THEN text_chars[current_index + 1]
    ELSE NoChar

\* the four ranges with their upper ends left out (a..b for a..=b)
is_composing_char_exclusive(ch) ==
    \/ ch \in 4352..4606
    \/ ch \in 12592..12686
    \/ ch \in 43360..43390
    \/ ch \in 55216..55294

\* Game::is_composing_char
is_composing_char(ch) ==
    \/ ch \in 4352..4607
    \/ ch \in 12592..12687
    \/ ch \in 43360..43391
    \/ ch \in 55216..55295

\* char::is_ascii_whitespace in place of char::is_whitespace
is_ascii_whitespace(ch) == ch \in {9, 10, 12, 13, 32}

\* char::is_whitespace (the Unicode White_Space property)
is_whitespace(ch) ==
    \/ ch \in 9..13
    \/ ch \in {32, 133, 160, 5760, 8232, 8233, 8239, 8287, 12288}
    \/ ch \in 8192..8202

\* the line-break test without the carriage return
IsLineFeed(ch) == ch = LF

\* ch == '\n' || ch == '\r'
IsLineBreak(ch) == ch = LF \/ ch = CR

\* the whitespace filter without its test of the expected character
IsStrayWhitespace_any(ch, expected) == is_whitespace(ch) /\ ch # SPACE

\* ch.is_whitespace() && ch != ' ' && expected != ' '
IsStrayWhitespace(ch, expected) ==
    is_whitespace(ch) /\ ch # SPACE /\ expected # SPACE

\* the cursor advanced by the UTF-8 width of a syllable, not by one character
Advanced_bytes(index) == index + 3

\* self.current_index += 1
Advanced(index) == index + 1

\* the subtraction without the floor at 0
Damaged_unclamped(hp, damage) == F32Sub(hp, damage)

\* (self.boss_hp - self.boss_damage).max(0.0)
Damaged(hp, damage) == F32Max0(F32Sub(hp, damage))

\* the completion test off by one
IsFinished_strict(index, total) == index > total

\* self.current_index >= self.total_chars, after the increment
IsFinished(index, total) == index >= total

\* the bookkeeping of a submit of ch: typed counts the submits while they
\* spell the script from its start
Note(ch, res, br) ==
    /\ input' = ch
    /\ result' = res
    /\ branch' = br
    /\ typed' = IF typed >= 0 /\ typed < Len(text_chars)
                   /\ ch = text_chars[typed + 1]
                THEN typed + 1 ELSE 0 - 1
    /\ last_outcome' = IF res.kind = "Ignored" THEN last_outcome ELSE res.kind
    /\ hits' = IF res.kind \in {"Correct", "Victory"} THEN hits + 1
               ELSE IF res.kind = "Restarted" THEN 0 ELSE hits

\* return StepResult::Ignored
Ignore(ch, br) == UNCHANGED game /\ Note(ch, Ignored, br)

\* a restart on any whitespace, not on the space alone
OnAwaiting_whitespace(ch) ==
    IF is_whitespace(ch) THEN reset /\ Note(ch, Restarted, "restart")
    ELSE Ignore(ch, "await")

\* process_char while awaiting_restart
OnAwaiting(ch) ==
    IF ch = SPACE THEN reset /\ Note(ch, Restarted, "restart")
    ELSE Ignore(ch, "await")

\* process_char when expected_char() is None
OnExhausted(ch) ==
    /\ awaiting_restart' = TRUE
    /\ message' = "victory"
    /\ UNCHANGED <<boss_hp, current_index>>
    /\ Note(ch, Victory, "exhausted")

\* process_char when ch == expected
OnMatch(ch) ==
    /\ current_index' = Advanced(current_index)
    /\ boss_hp' = Damaged(boss_hp, boss_damage)
    /\ IF IsFinished(Advanced(current_index), total_chars)
       THEN /\ awaiting_restart' = TRUE
            /\ message' = "victory"
            /\ Note(ch, Victory, "victory")
       ELSE /\ message' = "correct"
            /\ UNCHANGED awaiting_restart
            /\ Note(ch, Correct, "correct")

\* a wrong keystroke that costs health
OnMismatch_penalty(ch) ==
    /\ message' = "wrong"
    /\ boss_hp' = Damaged(boss_hp, boss_damage)
    /\ UNCHANGED <<current_index, awaiting_restart>>
    /\ Note(ch, Wrong(ch), "wrong")

\* process_char when ch != expected
OnMismatch(ch) ==
    /\ message' = "wrong"
    /\ UNCHANGED <<boss_hp, current_index, awaiting_restart>>
    /\ Note(ch, Wrong(ch), "wrong")

\* Game::process_char(ch)
process_char(ch) ==
    /\ UNCHANGED script
    /\ IF awaiting_restart THEN OnAwaiting(ch)
       ELSE IF IsLineBreak(ch) THEN Ignore(ch, "linebreak")
       ELSE IF expected_char = NoChar THEN OnExhausted(ch)
       ELSE IF is_composing_char(ch) THEN Ignore(ch, "composing")
       ELSE IF IsStrayWhitespace(ch, expected_char) THEN Ignore(ch, "whitespace")
       ELSE IF ch = expected_char THEN OnMatch(ch)
       ELSE OnMismatch(ch)

\* the characters worth submitting in the current state
Inputs == InputChars \cup {c \in {expected_char} : c # NoChar}

\* Game::line_state reads past char_meta or LYRICS
LinePanic == <<0 - 1, 0 - 1>>

\* the end test of line_state off by one
AtEnd_strict(index, total) == index > total

\* self.current_index >= self.total_chars, in line_state
AtEnd(index, total) == index >= total

\* char::len_utf8
Utf8Len(c) == IF c < 128 THEN 1 ELSE IF c < 2048 THEN 2 ELSE IF c < 65536 THEN 3 ELSE 4

RECURSIVE StrLen(_)
\* str::len: the bytes of a line
StrLen(line) == IF line = <<>> THEN 0 ELSE Utf8Len(Head(line)) + StrLen(Tail(line))

\* line_state with the last line measured in bytes (len() for chars().count())
line_state_bytes ==
    IF AtEnd(current_index, total_chars)
    THEN IF Len(lines) = 0 THEN LinePanic
         ELSE <<Len(lines) - 1, StrLen(lines[Len(lines)])>>
    ELSE IF current_index + 1 \in DOMAIN char_meta
         THEN char_meta[current_index + 1]
         ELSE LinePanic

\* Game::line_state
line_state ==
    IF AtEnd(current_index, total_chars)
    THEN IF Len(lines) = 0 THEN LinePanic
         ELSE <<Len(lines) - 1, Len(lines[Len(lines)])>>
    ELSE IF current_index + 1 \in DOMAIN char_meta
         THEN char_meta[current_index + 1]
         ELSE LinePanic

\* submit: one call of process_char
Submit ==
    /\ \E ch \in Inputs : process_char(ch)
    /\ UNCHANGED <<wrong_char, running>>

\* reset called on its own
Reset ==
    /\ reset
    /\ branch' = "reset"
    /\ typed' = 0 - 1
    /\ hits' = 0
    /\ UNCHANGED <<script, input, result, last_outcome, wrong_char, running>>

Next == Submit

Spec == Init /\ [][Next]_vars

\* the session driven through both of its mutating operations
NextApi == Submit \/ Reset

SpecApi == Init /\ [][NextApi]_vars

(* ---------------------------- empty texts ----------------------------- *)

\* a session on any text, the texts without a character included
InitAny == \E ls \in Scripts : New(ls)

SpecAny == InitAny /\ [][Next]_vars

(* ------------------------ typed-through sessions ----------------------- *)

\* a session on one line of n syllables, 1 <= n <= MaxDrain
InitDrain == \E n \in 1..MaxDrain : New(<<[i \in 1..n |-> SylDong]>>)

\* the player types what is expected, and the space once the text is done
TypeOn ==
    /\ process_char(IF awaiting_restart THEN SPACE ELSE expected_char)
    /\ UNCHANGED <<wrong_char, running>>

SpecDrain == InitDrain /\ [][TypeOn]_vars

(* ----------------------------- the event loop -------------------------- *)

\* KeyCode values of key presses
KeyChar(c) == [code |-> "Char", c |-> c]
KeyEnter == [code |-> "Enter", c |-> NoChar]
KeyTab == [code |-> "Tab", c |-> NoChar]
KeyEsc == [code |-> "Esc", c |-> NoChar]
KeyLeft == [code |-> "Left", c |-> NoChar]

\* key_to_char
key_to_char(key) ==
    IF key.code = "Char" THEN key.c
    ELSE IF key.code = "Enter" THEN LF
    ELSE IF key.code = "Tab" THEN TAB
    ELSE NoChar

\* the match without Victory in its clearing arm
Hint_sticky(res, hint) ==
    IF res.kind = "Wrong" THEN res.ch
    ELSE IF res.kind \in {"Correct", "Restarted"} THEN NoChar
    ELSE hint

\* the match on the StepResult in run_app: the next wrong_char
Hint(res, hint) ==
    IF res.kind = "Wrong" THEN res.ch
    ELSE IF res.kind \in {"Correct", "Victory", "Restarted"} THEN NoChar
    ELSE hint

\* the keys pressed that do not leave the loop
Keys == {KeyChar(c) : c \in Inputs \ {LF, TAB}} \cup {KeyEnter, KeyTab, KeyLeft}

\* run_app on a key press that is neither Esc nor Ctrl-C
KeyPress ==
    /\ running
    /\ \E key \in Keys :
          IF key_to_char(key) = NoChar THEN UNCHANGED vars
          ELSE /\ process_char(key_to_char(key))
               /\ wrong_char' = Hint(result', wrong_char)
               /\ UNCHANGED running

\* run_app on Esc or Ctrl-C: break
Quit ==
    /\ running
    /\ running' = FALSE
    /\ UNCHANGED <<script, game, input, result, branch, typed, last_outcome,
                   hits, wrong_char>>

NextApp == KeyPress \/ Quit

SpecApp == Init /\ [][NextApp]_vars

(* ----------------------------- properties ----------------------------- *)

\* the composition-intermediate code points: U+1100..U+11FF, U+3130..U+318F,
\* U+A960..U+A97F, U+D7B0..U+D7FF
CompositionIntermediate ==
    (4352..4607) \cup (12592..12687) \cup (43360..43391) \cup (55216..55295)

\* the whitespace characters other than the space (U+0020)
OtherWhitespace ==
    (9..13) \cup {133, 160, 5760, 8232, 8233, 8239, 8287, 12288}
    \cup (8192..8202)

\* the outcome of the submit that completed the first `typed` characters
InOrderOutcome ==
    /\ current_index = typed
    /\ result = IF typed = total_chars THEN Victory ELSE Correct

C1_Typeable ==
    \A i \in 1..Len(text_chars) :
        text_chars[i] \notin (CompositionIntermediate \cup OtherWhitespace)

C2_RestartIffDone ==
    /\ awaiting_restart <=> current_index = total_chars
    /\ branch # "exhausted"

\* a completed session waiting for its restart
C2_Witness ==
    /\ awaiting_restart
    /\ current_index = total_chars
    /\ branch = "victory"

\* C3: under any sequence of submits and resets, 0 <= cursor <= N.
C3_CursorInRange == 0 <= current_index /\ current_index <= total_chars

\* reset called on its own in mid-script: the cursor is back at 0 after a
\* submit had advanced it
C3_Witness ==
    /\ branch = "reset"
    /\ result = Correct
    /\ current_index = 0
    /\ total_chars >= 2

\* C4, as claimed: with awaiting_restart false and cursor < N, a submit of
\* any character other than the expected one returns Wrong(that character)
\* and leaves cursor, health and awaiting_restart as they were.
C4_AnyOtherIsWrong ==
    [][(~awaiting_restart /\ current_index < total_chars
        /\ input' # expected_char)
       => /\ result' = Wrong(input')
          /\ UNCHANGED <<current_index, boss_hp, awaiting_restart>>]_vars

\* C4, amended: with awaiting_restart false and cursor < N, a submit of any
\* character other than the expected one leaves cursor, health and
\* awaiting_restart as they were; it returns Ignored when the character is a
\* composition-intermediate code point, a line-feed, a carriage-return, or
\* another whitespace other than the space while the expected character is
\* not the space, and Wrong(that character) otherwise.
C4_OtherKeepsState ==
    [][(~awaiting_restart /\ current_index < total_chars
        /\ input' # expected_char)
       => /\ UNCHANGED <<current_index, boss_hp, awaiting_restart>>
          /\ result' =
                IF \/ input' \in CompositionIntermediate
                   \/ input' \in {LF, CR}
                   \/ input' \in OtherWhitespace /\ expected_char # SPACE
                THEN Ignored ELSE Wrong(input')]_vars

\* a wrong keystroke after some progress, the health still below 100
C4_Witness ==
    /\ result = Wrong(SylHae)
    /\ input = SylHae
    /\ current_index >= 1
    /\ current_index < total_chars
    /\ boss_hp < F32Hundred
    /\ boss_hp > 0

\* C5: with awaiting_restart true, a submit of the space returns Restarted
\* and leaves cursor = 0, health = 100 and awaiting_restart false.
C5_SpaceRestarts ==
    [][(awaiting_restart /\ input' = SPACE)
       => /\ result' = Restarted
          /\ current_index' = 0
          /\ boss_hp' = F32Hundred
          /\ awaiting_restart' = FALSE]_vars

\* a session just restarted from its completed state
C5_Witness ==
    /\ result = Restarted
    /\ input = SPACE
    /\ current_index = 0
    /\ boss_hp = F32Hundred
    /\ ~awaiting_restart

\* C6: with awaiting_restart true, a submit of any character but the space
\* returns Ignored and changes no field of the session.
C6_OnlySpaceRestarts ==
    [][(awaiting_restart /\ input' # SPACE)
       => result' = Ignored /\ UNCHANGED <<game, script>>]_vars

\* a whitespace other than the space ignored by a completed session
C6_Witness ==
    /\ awaiting_restart
    /\ result = Ignored
    /\ input = IdeographicSpace
    /\ current_index = total_chars

\* C7: with awaiting_restart false, a submit of a line-feed or of a
\* carriage-return returns Ignored and changes no field of the session.
C7_LineBreakIgnored ==
    [][(~awaiting_restart /\ input' \in {10, 13})
       => result' = Ignored /\ UNCHANGED <<game, script>>]_vars

\* a carriage-return ignored where a space is expected, mid-script
C7_Witness ==
    /\ ~awaiting_restart
    /\ result = Ignored
    /\ input = CR
    /\ expected_char = SPACE
    /\ current_index >= 1

\* C8: in every state, a submit of a composition-intermediate code point
\* returns Ignored without reaching the comparison, and changes no field of
\* the session.
C8_ComposingIgnored ==
    [][input' \in CompositionIntermediate
       => /\ result' = Ignored
          /\ branch' \in {"await", "composing"}
          /\ UNCHANGED <<game, script>>]_vars

\* the expected character is itself composition-intermediate, and submitting
\* it was ignored
C8_Witness ==
    /\ branch = "composing"
    /\ result = Ignored
    /\ input = JamoB
    /\ expected_char = JamoB

\* C9: with awaiting_restart false and cursor < N, a whitespace other than
\* the space is Ignored with no change when the expected character is not the
\* space, and a space submitted where a space is expected advances the cursor
\* by 1 and returns Correct, or Victory on the last character.
C9_WhitespacePolicy ==
    [][(~awaiting_restart /\ current_index < total_chars)
       => /\ (input' \in OtherWhitespace /\ expected_char # SPACE)
                => result' = Ignored /\ UNCHANGED <<game, script>>
          /\ (input' = SPACE /\ expected_char = SPACE)
                => /\ current_index' = current_index + 1
                   /\ result' = IF current_index + 1 = total_chars
                                THEN Victory ELSE Correct]_vars

\* a tab ignored although the script has a tab at the cursor
C9_Witness ==
    /\ branch = "whitespace"
    /\ result = Ignored
    /\ input = TAB
    /\ expected_char = TAB

\* health after an accepted character: strictly lower, 0 when the damage
\* exceeds what was left, else hp - damage to within the rounding of binary32
\* at 100.0 (2^-18, 64 ticks)
C10_Lowered(hp, hp2) ==
    /\ hp2 < hp
    /\ IF hp - boss_damage <= 0 THEN hp2 = 0
       ELSE (hp2 - (hp - boss_damage)) \in (0 - 64)..64

\* C10: health stays within [0, 100]; a submit that returns Correct or
\* Victory lowers it by the per-character damage, floored at 0; one that
\* returns Wrong or Ignored leaves it unchanged; only Restarted raises it.
C10_Health ==
    /\ boss_hp \in 0..F32Hundred
    /\ [][/\ boss_hp' \in 0..F32Hundred
          /\ result'.kind \in {"Correct", "Victory"}
                => C10_Lowered(boss_hp, boss_hp')
          /\ result'.kind \in {"Wrong", "Ignored"} => boss_hp' = boss_hp
          /\ result'.kind # "Restarted" => boss_hp' <= boss_hp]_vars

\* the program's text completed, the last subtraction floored at 0
C10_Witness ==
    /\ lines = LYRICS
    /\ result = Victory
    /\ boss_hp = 0

\* the floating tolerance for a script of n characters: n roundings of half
\* a unit in the last place of 100.0 (n * 2^-18), in ticks
DrainTolerance(n) == 64 * n

\* per-character-damage * N is 100 within the tolerance, and health is never
\* negative and is above 0 while cursor < N
C11_Drains ==
    /\ (boss_damage * total_chars - F32Hundred)
          \in (0 - DrainTolerance(total_chars))..DrainTolerance(total_chars)
    /\ boss_hp >= 0
    /\ current_index < total_chars => boss_hp > 0

C12_LineStateAtEnd ==
    current_index = total_chars
        => line_state = <<Len(lines) - 1, Len(lines[Len(lines)])>>

\* the program's text typed to its end: line 3 with its 18 characters
C12_Witness ==
    /\ lines = LYRICS
    /\ current_index = total_chars
    /\ result = Victory
    /\ line_state = <<3, 18>>

C14_Total ==
    /\ result.kind \in
          IF branch = "new" THEN {"None"}
          ELSE {"Correct", "Wrong", "Ignored", "Victory", "Restarted"}
    /\ \A ch \in InputChars : ENABLED process_char(ch)
    /\ Len(text_chars) = total_chars
    /\ Len(char_meta) = total_chars
    /\ expected_char = NoChar <=> current_index >= total_chars
    /\ line_state # LinePanic
    /\ line_state[1] + 1 \in DOMAIN lines

\* a submit on the exhausted script returned Ignored: nothing is expected
\* and line_state still answers
C14_Witness ==
    /\ current_index = total_chars
    /\ expected_char = NoChar
    /\ result = Ignored
    /\ input = SylDong
    /\ line_state # LinePanic

\* C15: Restarted is returned only when the last outcome other than Ignored
\* was Victory; after a Victory a submit returns Restarted for the space and
\* Ignored for anything else; and a space submitted while awaiting_restart is
\* false is compared with the expected character and resets nothing.
C15_Lifecycle ==
    [][/\ result'.kind = "Restarted" => last_outcome = "Victory"
       /\ last_outcome = "Victory"
             => result' = IF input' = SPACE THEN Restarted ELSE Ignored
       /\ (~awaiting_restart /\ input' = SPACE)
             => /\ result' =
                      IF expected_char # SPACE THEN Wrong(SPACE)
                      ELSE IF current_index + 1 = total_chars THEN Victory
                      ELSE Correct
                /\ message' # "restarted"
                /\ boss_hp' <= boss_hp
                /\ current_index' >= current_index]_vars

\* a space typed in mid-session where a syllable is expected: Wrong, and the
\* progress is kept
C15_Witness ==
    /\ result = Wrong(SPACE)
    /\ ~awaiting_restart
    /\ current_index >= 1
    /\ boss_hp < F32Hundred

\* C16: the cursor changes only by +1, on exactly the submits that return
\* Correct or Victory, and to 0 on Restarted; so it equals the number of
\* Correct and Victory outcomes since construction or the last Restarted.
C16_CursorCountsHits ==
    /\ current_index = hits
    /\ [][/\ result'.kind \in {"Correct", "Victory"}
                => current_index' = current_index + 1
          /\ result'.kind = "Restarted" => current_index' = 0
          /\ result'.kind \in {"Wrong", "Ignored"}
                => current_index' = current_index
          /\ current_index' = hits']_vars

\* after an advance, the expected character itself was submitted and Ignored
\* (a character the script holds but process_char filters): the cursor stays
\* at the number of accepted characters
C16_Witness ==
    /\ last_outcome = "Correct"
    /\ typed < 0
    /\ input = expected_char
    /\ result = Ignored
    /\ current_index = hits
    /\ hits >= 1

\* C17: in the event loop the hint is Some(c) after Wrong(c), None after
\* Correct, Victory and Restarted, and kept by Ignored; and a hint Some(c) is
\* only held while awaiting_restart is false, cursor < N and c is not the
\* character expected at the cursor.
C17_Hint ==
    /\ wrong_char = NoChar
    /\ [][/\ result'.kind = "Wrong" => wrong_char' = result'.ch
          /\ result'.kind \in {"Correct", "Victory", "Restarted"}
                => wrong_char' = NoChar
          /\ result'.kind = "Ignored" => wrong_char' = wrong_char
          /\ wrong_char' # NoChar
                => /\ ~awaiting_restart'
                   /\ current_index' < total_chars'
                   /\ wrong_char' # text_chars'[current_index' + 1]]_vars

\* a hint kept over an ignored key, in mid-script
C17_Witness ==
    /\ wrong_char = SylHae
    /\ result = Ignored
    /\ input = LF
    /\ current_index >= 1
    /\ running

RECURSIVE SumLens(_, _)
\* the characters of the first l lines of ls
SumLens(ls, l) == IF l = 0 THEN 0 ELSE Len(ls[l]) + SumLens(ls, l - 1)

\* C18: with cursor < N, line_state() is (l, p) with l a line index,
\* 0 <= p < length of line l, and cursor = the lengths of lines 0..l-1 + p.
C18_LineStateInText ==
    current_index < total_chars
        => /\ line_state[1] \in 0..(Len(lines) - 1)
           /\ line_state[2] \in 0..(Len(lines[line_state[1] + 1]) - 1)
           /\ current_index = SumLens(lines, line_state[1]) + line_state[2]

\* the last character of the first line of the program's text was typed:
\* position 0 of the second line
C18_Witness ==
    /\ lines = LYRICS
    /\ result = Correct
    /\ current_index = 18
    /\ line_state = <<1, 0>>

\* C19, as claimed: a whitespace other than the space never advances the
\* cursor nor lowers health, and where the space is expected it returns
\* Wrong.
C19_WhitespaceWrongAtSpace ==
    [][input' \in OtherWhitespace
       => /\ current_index' = current_index
          /\ boss_hp' = boss_hp
          /\ (~awaiting_restart /\ expected_char = SPACE)
                => result' = Wrong(input')]_vars

\* C19, amended: the same, except that where the space is expected a
\* line-feed or a carriage-return returns Ignored; every other whitespace
\* other than the space returns Wrong there.
C19_WhitespaceNeverAdvances ==
    [][input' \in OtherWhitespace
       => /\ current_index' = current_index
          /\ boss_hp' = boss_hp
          /\ (~awaiting_restart /\ expected_char = SPACE)
                => result' = IF input' \in {LF, CR} THEN Ignored
                              ELSE Wrong(input')]_vars

\* a tab typed where the space is expected
C19_Witness ==
    /\ result = Wrong(TAB)
    /\ input = TAB
    /\ expected_char = SPACE
    /\ ~awaiting_restart

=============================================================================
